---- MODULE Spec2Model ----
(***************************************************************************)
(* Live bus departures (app.py): one refresh tick fetches the departure    *)
(* monitor payload, normalises its stop events into a frame of departures, *)
(* and renders them grouped by date.                                       *)
(*                                                                         *)
(* Representation of values:                                               *)
(*   - a JSON object (dict) is a function whose DOMAIN is the keys present *)
(*   - a name (line, destination, stop name) is a tuple of 1-char strings  *)
(*   - a time string is a record [kind, y, mo, d, h, mi, s, sfx]; kind is  *)
(*     "empty" (""), "text" (not ISO-8601) or "iso"; sfx is the UTC marker *)
(*     or offset that ends the string ("" when the string has none)        *)
(*   - a datetime is [ok, t]: ok = FALSE is None, t is epoch seconds       *)
(***************************************************************************)
EXTENDS Integers, Sequences, FiniteSets, TLC

VARIABLES env, limit_rows, pc, fetches, payload, now, df, sortedIndex, rendered,
          message, stopInfo, debugTable, prevFetchFailed

vars == <<env, limit_rows, pc, fetches, payload, now, df, sortedIndex, rendered,
          message, stopInfo, debugTable, prevFetchFailed>>

----------------------------------------------------------------------------
(* Settings and bounds *)

SHOW_ROWS == 10

\* the most stop events a payload of the model holds
MaxEvents == 2

\* the largest display cap render_grouped_by_date is tried with on its own
MaxLimit == 2

\* UTC offset, in seconds, of the zone astimezone() converts to
LocalUtcOffset == 39600

SecondsPerMinute == 60

SecondsPerDay == 86400

----------------------------------------------------------------------------
(* Calendar arithmetic behind datetime.fromisoformat and strftime *)

DaysFromCivil(y, m, d) ==
    LET yy  == IF m <= 2 THEN y - 1 ELSE y
        era == yy \div 400
        yoe == yy - era * 400
        mp  == IF m > 2 THEN m - 3 ELSE m + 9
        doy == (153 * mp + 2) \div 5 + d - 1
        doe == yoe * 365 + yoe \div 4 - yoe \div 100 + doy
    IN  era * 146097 + doe - 719468

CivilFromDays(z0) ==
    LET z   == z0 + 719468
        era == z \div 146097
        doe == z - era * 146097
        yoe == (doe - doe \div 1460 + doe \div 36524 - doe \div 146096) \div 365
        doy == doe - (365 * yoe + yoe \div 4 - yoe \div 100)
        mp  == (5 * doy + 2) \div 153
        d   == doy - (153 * mp + 2) \div 5 + 1
        m   == IF mp < 10 THEN mp + 3 ELSE mp - 9
        y   == yoe + era * 400 + (IF m <= 2 THEN 1 ELSE 0)
    IN  [y |-> y, m |-> m, d |-> d]

Pad2(n) == IF n < 10 THEN "0" \o ToString(n) ELSE ToString(n)

\* dt.strftime("%d/%m/%Y") of a local datetime
StrftimeDate(dt) ==
    LET c == CivilFromDays((dt.t + LocalUtcOffset) \div SecondsPerDay)
    IN  Pad2(c.d) \o "/" \o Pad2(c.m) \o "/" \o ToString(c.y)

\* dt.strftime("%H:%M") of a local datetime
StrftimeTime(dt) ==
    LET sod == (dt.t + LocalUtcOffset) % SecondsPerDay
    IN  Pad2(sod \div 3600) \o ":" \o Pad2((sod % 3600) \div SecondsPerMinute)

----------------------------------------------------------------------------
(* Time strings and _parse_iso_to_local_dt *)

EmptyStr == [kind |-> "empty", y |-> 0, mo |-> 0, d |-> 0, h |-> 0, mi |-> 0,
             s |-> 0, sfx |-> ""]

Iso(y, mo, d, h, mi, s, sfx) ==
    [kind |-> "iso", y |-> y, mo |-> mo, d |-> d, h |-> h, mi |-> mi, s |-> s,
     sfx |-> sfx]

NoneDt == [ok |-> FALSE, t |-> 0]

\* iso_str.replace("Z", "+00:00")
ReplaceZ(str) == IF str.sfx = "Z" THEN [str EXCEPT !.sfx = "+00:00"] ELSE str

\* the offsets datetime.fromisoformat reads at the end of the string
KnownOffsets == {"", "+00:00", "+11:00"}

OffsetSeconds(sfx) ==
    CASE sfx = "+00:00" -> 0
      [] sfx = "+11:00" -> 39600
      [] OTHER -> LocalUtcOffset   \* naive: astimezone() reads it as local time

\* datetime.fromisoformat(...).astimezone(), None when it raises
FromIsoFormat(str) ==
    IF str.kind = "iso" /\ str.sfx \in KnownOffsets
    THEN [ok |-> TRUE,
          t  |-> DaysFromCivil(str.y, str.mo, str.d) * SecondsPerDay
                 + str.h * 3600 + str.mi * SecondsPerMinute + str.s
                 - OffsetSeconds(str.sfx)]
    ELSE NoneDt

Truthy(str) == str.kind # "empty"

_parse_iso_to_local_dt(iso_str) ==
    IF ~Truthy(iso_str) THEN NoneDt ELSE FromIsoFormat(ReplaceZ(iso_str))

\* a bug: planned preferred over estimated
PickPlannedFirst(row) ==
    LET p == _parse_iso_to_local_dt(row.planned)
    IN  IF p.ok THEN p ELSE _parse_iso_to_local_dt(row.estimated)

_pick_best_time(row) ==
    LET e == _parse_iso_to_local_dt(row.estimated)
    IN  IF e.ok THEN e ELSE _parse_iso_to_local_dt(row.planned)

----------------------------------------------------------------------------
(* Names and the dict lookups of parse_stop_events *)

Has(d, k) == k \in DOMAIN d

EmptyDict == <<>>

\* d.get(k) or {}
GetDict(d, k) == IF Has(d, k) THEN d[k] ELSE EmptyDict

RECURSIVE LStrip(_)
LStrip(name) ==
    IF name # <<>> /\ Head(name) = " " THEN LStrip(Tail(name)) ELSE name

RECURSIVE RStrip(_)
RStrip(name) ==
    IF name # <<>> /\ name[Len(name)] = " "
    THEN RStrip(SubSeq(name, 1, Len(name) - 1))
    ELSE name

\* str(line).strip()
Strip(name) == RStrip(LStrip(name))

\* d.get(k) is a non-empty name
HasName(d, k) == Has(d, k) /\ d[k] # <<>>

\* d.get(k) is a non-empty time string
HasTime(d, k) == Has(d, k) /\ Truthy(d[k])

\* ev.get("departureTimePlanned") or ev.get("departureTime") or ""
PlannedOf(ev) ==
    IF HasTime(ev, "departureTimePlanned") THEN ev["departureTimePlanned"]
    ELSE IF HasTime(ev, "departureTime") THEN ev["departureTime"]
    ELSE EmptyStr

\* ev.get("departureTimeEstimated") or ""
EstimatedOf(ev) ==
    IF HasTime(ev, "departureTimeEstimated") THEN ev["departureTimeEstimated"]
    ELSE EmptyStr

\* disassembledName or number or name or ""
LineOf(transport) ==
    IF HasName(transport, "disassembledName") THEN transport["disassembledName"]
    ELSE IF HasName(transport, "number") THEN transport["number"]
    ELSE IF HasName(transport, "name") THEN transport["name"]
    ELSE <<>>

\* (ev.get("destination") or {}).get("name")
\*   or (transport.get("destination") or {}).get("name") or ""
DestinationOf(ev, transport) ==
    IF HasName(GetDict(ev, "destination"), "name")
    THEN GetDict(ev, "destination")["name"]
    ELSE IF HasName(GetDict(transport, "destination"), "name")
    THEN GetDict(transport, "destination")["name"]
    ELSE <<>>

\* location.get("name", "")
StopNameOf(location) == IF Has(location, "name") THEN location["name"] ELSE <<>>

\* the dict appended to rows for one stop event; index is its label in the frame
NormalizeEvent(ev, index) ==
    LET transport == GetDict(ev, "transportation")
        location  == GetDict(ev, "location")
    IN  [index       |-> index,
         line        |-> Strip(LineOf(transport)),
         destination |-> DestinationOf(ev, transport),
         planned     |-> PlannedOf(ev),
         estimated   |-> EstimatedOf(ev),
         stop_name   |-> StopNameOf(location)]

\* payload.get("stopEvents", []) or []
EventsOf(p) == IF Has(p, "stopEvents") THEN p["stopEvents"] ELSE <<>>

\* rows, as pd.DataFrame(rows) holds them
BuildRows(p) ==
    LET events == EventsOf(p)
    IN  [i \in 1..Len(events) |-> NormalizeEvent(events[i], i - 1)]

----------------------------------------------------------------------------
(* The frame operations of parse_stop_events *)

\* df[k] = v on one row
WithColumn(row, k, v) == (k :> v) @@ row

\* df["dt"] = df.apply(_pick_best_time, axis=1)
WithBestTime(rows) ==
    [i \in DOMAIN rows |-> WithColumn(rows[i], "dt", _pick_best_time(rows[i]))]

\* the dt column holds no datetime at all, so pandas keeps it as plain objects
\* and its .dt accessor raises AttributeError
DtAccessorRaises(rows) == \A i \in DOMAIN rows : ~rows[i].dt.ok

\* df[df["dt"].notna()]
NotNa(rows) == SelectSeq(rows, LAMBDA r : r.dt.ok)

\* a bug: whole minutes rounded toward zero
MinsTruncated(dt, nowDt) ==
    LET secs == dt.t - nowDt.t
    IN  IF secs >= 0 THEN secs \div SecondsPerMinute
        ELSE -((-secs) \div SecondsPerMinute)

\* (dt - now).total_seconds() // 60
Mins(dt, nowDt) == (dt.t - nowDt.t) \div SecondsPerMinute

\* the date_label, time_label and mins columns
WithDerived(rows, nowDt) ==
    [i \in DOMAIN rows |->
        WithColumn(
          WithColumn(
            WithColumn(rows[i], "date_label", StrftimeDate(rows[i].dt)),
            "time_label", StrftimeTime(rows[i].dt)),
          "mins", Mins(rows[i].dt, nowDt))]

\* a bug: the blank-route filter left out
KeepBlankRoutes(rows) == rows

\* df[df["line"].astype(str).str.len() > 0]
DropBlankRoutes(rows) == SelectSeq(rows, LAMBDA r : Len(r.line) > 0)

Perms(n) == {p \in [1..n -> 1..n] : \A i, j \in 1..n : i # j => p[i] # p[j]}

\* the indexers sort_values(by=["dt"]) may produce: its default kind is
\* quicksort, which orders equal keys either way
SortOrders(rows) ==
    {p \in Perms(Len(rows)) :
        \A i \in 1..(Len(rows) - 1) : rows[p[i]].dt.t <= rows[p[i + 1]].dt.t}

\* rows taken in the indexer's order
Take(rows, p) == [i \in 1..Len(rows) |-> rows[p[i]]]

\* reset_index(drop=True)
ResetIndex(rows) == [i \in DOMAIN rows |-> [rows[i] EXCEPT !.index = i - 1]]

\* the frame before the sort, for a payload whose events give rows
Survivors(p, nowDt) ==
    DropBlankRoutes(WithDerived(NotNa(WithBestTime(BuildRows(p))), nowDt))

----------------------------------------------------------------------------
(* render_grouped_by_date *)

\* the placeholder shown for a missing value
Placeholder == "-"

Min(a, b) == IF a <= b THEN a ELSE b

\* df.head(limit_rows)
DfHead(rows, n) == SubSeq(rows, 1, Min(n, Len(rows)))

\* the distinct date labels, in the order of their first appearance
RECURSIVE FirstSeenLabels(_)
FirstSeenLabels(rows) ==
    IF rows = <<>> THEN <<>>
    ELSE LET rest == FirstSeenLabels(SubSeq(rows, 1, Len(rows) - 1))
             lab  == rows[Len(rows)].date_label
         IN  IF \E i \in DOMAIN rest : rest[i] = lab THEN rest
             ELSE Append(rest, lab)

\* the key that orders two date labels as their text compares: day, month, year
LabelKey(row) ==
    LET c == CivilFromDays((row.dt.t + LocalUtcOffset) \div SecondsPerDay)
    IN  (c.d * 100 + c.m) * 10000 + c.y

\* the groups of the given labels: every row that carries the label, in frame order
GroupsOf(rows, labels) ==
    [g \in DOMAIN labels |->
        [date_label |-> labels[g],
         rows       |-> SelectSeq(rows, LAMBDA r : r.date_label = labels[g])]]

\* a bug: groupby with its default sort=True, the labels ordered as text
GroupBySorted(rows) ==
    LET first == FirstSeenLabels(rows)
        keyOf(lab) ==
            LabelKey(CHOOSE r \in {rows[i] : i \in DOMAIN rows} : r.date_label = lab)
        ordered == CHOOSE q \in Perms(Len(first)) :
                      \A i \in 1..(Len(first) - 1) :
                          keyOf(first[q[i]]) <= keyOf(first[q[i + 1]])
    IN  GroupsOf(rows, [i \in DOMAIN first |-> first[ordered[i]]])

\* df.groupby("date_label", sort=False)
GroupBy(rows) == GroupsOf(rows, FirstSeenLabels(rows))

\* the rows of the groups, in iteration order
RECURSIVE Flatten(_)
Flatten(groups) ==
    IF groups = <<>> THEN <<>>
    ELSE Flatten(SubSeq(groups, 1, Len(groups) - 1)) \o groups[Len(groups)].rows

\* "Now" when mins <= 0, else f"{int(mins)}m" (mins is never NA in the frame)
WhenTxt(mins) ==
    IF mins <= 0 THEN "Now" ELSE ToString(mins) \o "m"

\* _parse_iso_to_local_dt(s).strftime("%H:%M") if s else placeholder:
\* raises AttributeError when s is non-empty and does not parse
LabelRaises(str) == Truthy(str) /\ ~_parse_iso_to_local_dt(str).ok

TimeLabelOrPlaceholder(str) ==
    IF Truthy(str) THEN StrftimeTime(_parse_iso_to_local_dt(str)) ELSE Placeholder

\* building the markup of one row raises
RowRaises(row) == LabelRaises(row.planned) \/ LabelRaises(row.estimated)

\* the markup of one row
ViewRow(row) ==
    [line        |-> row.line,
     destination |-> row.destination,
     planned     |-> TimeLabelOrPlaceholder(row.planned),
     estimated   |-> TimeLabelOrPlaceholder(row.estimated),
     when_txt    |-> WhenTxt(row.mins),
     time_label  |-> row.time_label]

\* number of rows written before the first row whose markup raises
RowsBeforeRaise(flat) ==
    IF \E i \in DOMAIN flat : RowRaises(flat[i])
    THEN (CHOOSE i \in DOMAIN flat :
              RowRaises(flat[i]) /\ \A j \in 1..(i - 1) : ~RowRaises(flat[j])) - 1
    ELSE Len(flat)

\* what the page shows of the groups once n rows are written, and, when n is
\* not all of them, the header of the group whose next row raised
RECURSIVE Written(_, _)
Written(groups, n) ==
    IF groups = <<>> THEN <<>>
    ELSE LET g == Head(groups)
         IN  IF n >= Len(g.rows)
             THEN <<[date_label |-> g.date_label,
                     rows |-> [i \in DOMAIN g.rows |-> ViewRow(g.rows[i])]]>>
                  \o (IF Len(groups) = 1 THEN <<>>
                      ELSE Written(Tail(groups), n - Len(g.rows)))
             ELSE <<[date_label |-> g.date_label,
                     rows |-> [i \in 1..n |-> ViewRow(g.rows[i])]]>>

----------------------------------------------------------------------------
(* Inputs: the environment, the upstream responses, the clock *)

Garbage == [kind |-> "text", y |-> 0, mo |-> 0, d |-> 0, h |-> 0, mi |-> 0,
            s |-> 0, sfx |-> ""]

\* 23:00 local on 31/01/2024, written with the UTC marker
TimeA == Iso(2024, 1, 31, 12, 0, 0, "Z")

\* 00:00 local on 01/02/2024
TimeC == Iso(2024, 1, 31, 13, 0, 0, "Z")

\* the same instant, written with an explicit offset
TimeB == Iso(2024, 2, 1, 0, 0, 0, "+11:00")

\* 23:01 local on 31/01/2024, written without an offset
TimeD == Iso(2024, 1, 31, 23, 1, 0, "")

\* the time fields of a stop event
TimeFields ==
    { EmptyDict,
      ("departureTimePlanned" :> TimeB) @@ ("departureTimeEstimated" :> EmptyStr),
      ("departureTimePlanned" :> Garbage) @@ ("departureTimeEstimated" :> TimeC),
      ("departureTimePlanned" :> TimeC) @@ ("departureTimeEstimated" :> Garbage),
      "departureTime" :> TimeD,
      ("departureTimePlanned" :> Garbage) @@ ("departureTime" :> TimeD),
      ("departureTimePlanned" :> TimeC) @@ ("departureTimeEstimated" :> TimeA) }

\* the transportation, location and destination of a stop event
OtherFields ==
    { EmptyDict,
      ("transportation" :>
          (("number" :> <<" ", "3", "9", " ">>)
           @@ ("name" :> <<"B", "u", "s">>)
           @@ ("destination" :> ("name" :> <<"B", "o", "n", "d", "i">>))))
        @@ ("location" :> ("name" :> <<"S", "t", "a", "n", "d", " ", "B">>)),
      ("transportation" :>
          (("disassembledName" :> <<" ">>) @@ ("number" :> <<"3", "3", "3">>)))
        @@ ("destination" :> ("name" :> <<"C", "i", "t", "y">>))
        @@ ("location" :> EmptyDict) }

Events == {tf @@ other : tf \in TimeFields, other \in OtherFields}

\* the decoded bodies of a 200 response
Payloads ==
    {EmptyDict}
    \cup {"stopEvents" :> es : es \in UNION {[1..k -> Events] : k \in 0..MaxEvents}}

\* the readings of datetime.now() when the frame is built
Nows ==
    { [ok |-> TRUE, t |-> FromIsoFormat(ReplaceZ(TimeA)).t + 1],
      [ok |-> TRUE, t |-> FromIsoFormat(ReplaceZ(TimeA)).t - SecondsPerMinute] }

\* os.environ
Environments ==
    { EmptyDict,
      "TFNSW_API_KEY" :> <<>>,
      "TFNSW_API_KEY" :> <<"k", "e", "y">> }

MissingKeyText == "Missing TFNSW_API_KEY environment variable"

\* the exceptions of requests.get, raise_for_status and r.json
FetchErrorTexts ==
    { "Read timed out", "401 Client Error", "500 Server Error",
      "Expecting value: line 1 column 1 (char 0)" }

DtAccessorText == "Can only use .dt accessor with datetimelike values"

StrftimeNoneText == "'NoneType' object has no attribute 'strftime'"

NoMessage == [kind |-> "none", text |-> ""]

InfoText == "No upcoming bus departures right now."

----------------------------------------------------------------------------
(* One run of the script per refresh tick *)

ErrorMessage(text) == [kind |-> "error", text |-> text]

\* a bug: only an unset variable counts as missing
ApiKeyUnset(e) == ~Has(e, "TFNSW_API_KEY")

\* not api_key
ApiKeyMissing(e) == ~HasName(e, "TFNSW_API_KEY")

\* a bug: the elements of the previous run stay on the page
PageKept == rendered

\* the page when a run of the script starts
PageAtRerun == <<>>

\* the state at the start of a run, but for the display cap
Start ==
    /\ env \in Environments
    /\ pc = "fetch"
    /\ fetches = 0
    /\ payload = EmptyDict
    /\ now = NoneDt
    /\ df = <<>>
    /\ sortedIndex = <<>>
    /\ rendered = <<>>
    /\ message = NoMessage
    /\ stopInfo = <<>>
    /\ debugTable = <<>>
    /\ prevFetchFailed = FALSE

\* the script calls render_grouped_by_date(df, limit_rows=SHOW_ROWS)
Init == Start /\ limit_rows = SHOW_ROWS

\* render_grouped_by_date under every small display cap
InitRender == Start /\ limit_rows \in 1..MaxLimit

\* fetch_departures raises RuntimeError before any request
FetchMissingKey ==
    /\ pc = "fetch"
    /\ ApiKeyMissing(env)
    /\ message' = ErrorMessage(MissingKeyText)
    /\ pc' = "done"
    /\ UNCHANGED <<env, limit_rows, fetches, payload, now, df, sortedIndex, rendered,
                   stopInfo, debugTable, prevFetchFailed>>

\* requests.get, raise_for_status or r.json raises
FetchFails ==
    /\ pc = "fetch"
    /\ ~ApiKeyMissing(env)
    /\ \E text \in FetchErrorTexts : message' = ErrorMessage(text)
    /\ fetches' = fetches + 1
    /\ pc' = "done"
    /\ UNCHANGED <<env, limit_rows, payload, now, df, sortedIndex, rendered, stopInfo,
                   debugTable, prevFetchFailed>>

\* fetch_departures returns the decoded body
FetchOk ==
    /\ pc = "fetch"
    /\ ~ApiKeyMissing(env)
    /\ payload' \in Payloads
    /\ fetches' = fetches + 1
    /\ pc' = "parse"
    /\ UNCHANGED <<env, limit_rows, now, df, sortedIndex, rendered, message, stopInfo,
                   debugTable, prevFetchFailed>>

\* parse_stop_events returns the empty frame of a payload without events
ParseEmpty ==
    /\ pc = "parse"
    /\ BuildRows(payload) = <<>>
    /\ df' = <<>>
    /\ pc' = "render"
    /\ UNCHANGED <<env, limit_rows, fetches, payload, now, sortedIndex, rendered, message,
                   stopInfo, debugTable, prevFetchFailed>>

\* parse_stop_events raises at df["dt"].dt
ParseRaises ==
    /\ pc = "parse"
    /\ BuildRows(payload) # <<>>
    /\ DtAccessorRaises(WithBestTime(BuildRows(payload)))
    /\ message' = ErrorMessage(DtAccessorText)
    /\ pc' = "done"
    /\ UNCHANGED <<env, limit_rows, fetches, payload, now, df, sortedIndex, rendered,
                   stopInfo, debugTable, prevFetchFailed>>

\* parse_stop_events returns the filtered, sorted frame
ParseOk ==
    /\ pc = "parse"
    /\ BuildRows(payload) # <<>>
    /\ ~DtAccessorRaises(WithBestTime(BuildRows(payload)))
    /\ \E nowDt \in Nows :
         \E p \in SortOrders(Survivors(payload, nowDt)) :
            /\ now' = nowDt
            /\ sortedIndex' = [i \in DOMAIN p |-> Survivors(payload, nowDt)[p[i]].index]
            /\ df' = ResetIndex(Take(Survivors(payload, nowDt), p))
    /\ pc' = "render"
    /\ UNCHANGED <<env, limit_rows, fetches, payload, rendered, message, stopInfo,
                   debugTable, prevFetchFailed>>

\* render_grouped_by_date on an empty frame
RenderEmpty ==
    /\ pc = "render"
    /\ df = <<>>
    /\ message' = [kind |-> "info", text |-> InfoText]
    /\ pc' = "info"
    /\ UNCHANGED <<env, limit_rows, fetches, payload, now, df, sortedIndex, rendered,
                   stopInfo, debugTable, prevFetchFailed>>

\* render_grouped_by_date writes every row of the truncated frame
RenderRows ==
    /\ pc = "render"
    /\ df # <<>>
    /\ LET groups == GroupBy(DfHead(df, limit_rows))
       IN  /\ RowsBeforeRaise(Flatten(groups)) = Len(Flatten(groups))
           /\ rendered' = Written(groups, Len(Flatten(groups)))
    /\ pc' = "info"
    /\ UNCHANGED <<env, limit_rows, fetches, payload, now, df, sortedIndex, message,
                   stopInfo, debugTable, prevFetchFailed>>

\* render_grouped_by_date raises at a row whose planned or estimated text
\* does not parse; what was written before it stays on the page
RenderRaises ==
    /\ pc = "render"
    /\ df # <<>>
    /\ LET groups == GroupBy(DfHead(df, limit_rows))
       IN  /\ RowsBeforeRaise(Flatten(groups)) < Len(Flatten(groups))
           /\ rendered' = Written(groups, RowsBeforeRaise(Flatten(groups)))
    /\ message' = ErrorMessage(StrftimeNoneText)
    /\ pc' = "done"
    /\ UNCHANGED <<env, limit_rows, fetches, payload, now, df, sortedIndex, stopInfo,
                   debugTable, prevFetchFailed>>

\* the stop info column and the debug table
StopInfoAndDebug ==
    /\ pc = "info"
    /\ stopInfo' = IF Len(df) > 0 /\ df[1].stop_name # <<>>
                   THEN df[1].stop_name ELSE <<Placeholder>>
    /\ debugTable' = df
    /\ pc' = "done"
    /\ UNCHANGED <<env, limit_rows, fetches, payload, now, df, sortedIndex, rendered,
                   message, prevFetchFailed>>

\* st_autorefresh reruns the script from the top
Refresh ==
    /\ pc = "done"
    /\ prevFetchFailed' = (message.text \in FetchErrorTexts)
    /\ pc' = "fetch"
    /\ fetches' = 0
    /\ payload' = EmptyDict
    /\ now' = NoneDt
    /\ df' = <<>>
    /\ sortedIndex' = <<>>
    /\ rendered' = PageAtRerun
    /\ message' = NoMessage
    /\ stopInfo' = <<>>
    /\ debugTable' = <<>>
    /\ UNCHANGED <<env, limit_rows>>

Next ==
    \/ FetchMissingKey
    \/ FetchFails
    \/ FetchOk
    \/ ParseEmpty
    \/ ParseRaises
    \/ ParseOk
    \/ RenderEmpty
    \/ RenderRows
    \/ RenderRaises
    \/ StopInfoAndDebug
    \/ Refresh

Spec == Init /\ [][Next]_vars

SpecRender == InitRender /\ [][Next]_vars

----------------------------------------------------------------------------
(* Properties *)

\* fetch_departures returned a payload in this run
FetchReturned ==
    \/ pc \in {"parse", "render", "info"}
    \/ pc = "done" /\ message.text \notin FetchErrorTexts \cup {MissingKeyText}

\* parse_stop_events returned a frame in this run
ParseReturned ==
    \/ pc \in {"render", "info"}
    \/ /\ pc = "done"
       /\ message.text \notin FetchErrorTexts \cup {MissingKeyText, DtAccessorText}

\* render_grouped_by_date was called in this run and has ended
RenderEnded == ParseReturned /\ pc \in {"info", "done"}

\* the stop event a row of the returned frame was built from
EventOfRow(k) == EventsOf(payload)[sortedIndex[k] + 1]

Resolves(str) == _parse_iso_to_local_dt(str).ok

\* the records written to the page, over all date groups
RenderedRows == Flatten(rendered)

(* C1: every record of the list parse_stop_events returns has a line that  *)
(* is non-empty after trimming and a best time that resolved from its      *)
(* estimated or planned field.                                              *)
C1_NonBlankResolvable ==
    ParseReturned =>
        \A k \in DOMAIN df :
            /\ Strip(df[k].line) # <<>>
            /\ Strip(LineOf(GetDict(EventOfRow(k), "transportation"))) # <<>>
            /\ df[k].dt.ok
            /\ Resolves(df[k].estimated) \/ Resolves(df[k].planned)

\* a payload of two events, one kept, one dropped for its blank line alone
C1_Witness ==
    /\ pc = "render"
    /\ Len(df) = 1
    /\ \E i \in DOMAIN BuildRows(payload) :
          /\ BuildRows(payload)[i].line = <<>>
          /\ _pick_best_time(BuildRows(payload)[i]).ok

(* C2: the returned list is in ascending order of best time, and survivors  *)
(* with equal best time keep the relative order of their events in the      *)
(* payload.                                                                 *)
C2_StableAscending ==
    ParseReturned =>
        /\ \A i, j \in DOMAIN df : i < j => df[i].dt.t <= df[j].dt.t
        /\ LET S == Survivors(payload, now)
           IN  \E p \in SortOrders(S) :
                  /\ \A i, j \in DOMAIN S :
                        i < j /\ S[p[i]].dt.t = S[p[j]].dt.t => p[i] < p[j]
                  /\ df = ResetIndex(Take(S, p))

(* C3: the best time of a record is its resolved estimated time when that   *)
(* parses, else its resolved planned time; an event with neither is not in  *)
(* the list; an event with empty estimated and valid planned time (and a    *)
(* route) is in the list with the planned time.                             *)
C3_BestTime ==
    ParseReturned =>
        /\ \A k \in DOMAIN df :
              LET ev == EventOfRow(k)
              IN  df[k].dt =
                      IF Resolves(EstimatedOf(ev))
                      THEN _parse_iso_to_local_dt(EstimatedOf(ev))
                      ELSE _parse_iso_to_local_dt(PlannedOf(ev))
        /\ \A i \in DOMAIN EventsOf(payload) :
              LET ev == EventsOf(payload)[i]
              IN  /\ (~Resolves(EstimatedOf(ev)) /\ ~Resolves(PlannedOf(ev)))
                        => (\A k \in DOMAIN df : sortedIndex[k] # i - 1)
                  /\ ( /\ ~Truthy(EstimatedOf(ev))
                       /\ Resolves(PlannedOf(ev))
                       /\ Strip(LineOf(GetDict(ev, "transportation"))) # <<>> )
                        => (\E k \in DOMAIN df :
                              /\ sortedIndex[k] = i - 1
                              /\ df[k].dt = _parse_iso_to_local_dt(PlannedOf(ev)))

\* estimated earlier than planned, both valid: the record carries the estimate
C3_Witness ==
    /\ pc = "render"
    /\ \E k \in DOMAIN df :
          /\ Resolves(df[k].estimated)
          /\ Resolves(df[k].planned)
          /\ df[k].dt = _parse_iso_to_local_dt(df[k].estimated)
          /\ df[k].dt # _parse_iso_to_local_dt(df[k].planned)
    /\ \E k \in DOMAIN df :
          ~Truthy(df[k].estimated) /\ df[k].dt = _parse_iso_to_local_dt(df[k].planned)

\* no event of the payload survives the filters
NoSurvivor ==
    \A i \in DOMAIN BuildRows(payload) :
        \/ ~_pick_best_time(BuildRows(payload)[i]).ok
        \/ BuildRows(payload)[i].line = <<>>

(* C4: a run whose payload leaves zero surviving records ends with the      *)
(* "no upcoming departures" message and not with an error.                  *)
C4_EmptyIsNotError ==
    pc = "done" /\ FetchReturned /\ NoSurvivor => message.kind = "info"

\* an event of the payload carries a time field that is not ISO-8601
SomeUnparseableField ==
    \E i \in DOMAIN EventsOf(payload) :
        \E k \in DOMAIN EventsOf(payload)[i] \cap
                 {"departureTimePlanned", "departureTime", "departureTimeEstimated"} :
            EventsOf(payload)[i][k].kind = "text"

(* C5: an unparseable value in a time field never gives the run an error:   *)
(* where some record survives, the run ends without an error message and    *)
(* with every row of the truncated frame on the page. (A payload that       *)
(* leaves no survivor is the case of C4.)                                   *)
C5_UnparseableIsSilent ==
    pc = "done" /\ FetchReturned /\ SomeUnparseableField /\ ~NoSurvivor =>
        /\ message.kind # "error"
        /\ Len(RenderedRows) = Len(DfHead(df, limit_rows))

(* C6: once render_grouped_by_date has ended, the rows on the page number   *)
(* min(N, S) and are the first min(N, S) records of the sorted list.        *)
C6_RenderedIsHead ==
    RenderEnded =>
        /\ Len(RenderedRows) = Min(limit_rows, Len(df))
        /\ \A k \in DOMAIN RenderedRows : RenderedRows[k] = ViewRow(df[k])

\* the position in rows of the first row that carries the label
FirstIndexOf(rows, lab) ==
    CHOOSE i \in DOMAIN rows :
        rows[i].date_label = lab /\ \A j \in 1..(i - 1) : rows[j].date_label # lab

(* C7: grouping the truncated sorted list by date label reorders nothing:   *)
(* the groups come in the order their labels are first seen, each group is  *)
(* in ascending best-time order, and the groups laid end to end are the     *)
(* truncated list; what is on the page follows that order.                  *)
C7_GroupingKeepsOrder ==
    ParseReturned =>
        LET T == DfHead(df, limit_rows)
            G == GroupBy(T)
        IN  /\ Flatten(G) = T
            /\ \A g, h \in DOMAIN G :
                  g < h => FirstIndexOf(T, G[g].date_label)
                             < FirstIndexOf(T, G[h].date_label)
            /\ \A g \in DOMAIN G :
                  \A i, j \in DOMAIN G[g].rows :
                      /\ G[g].rows[i].date_label = G[g].date_label
                      /\ i < j => G[g].rows[i].dt.t <= G[g].rows[j].dt.t
            /\ \A g \in DOMAIN rendered : rendered[g].date_label = G[g].date_label
            /\ \A k \in DOMAIN RenderedRows : RenderedRows[k] = ViewRow(T[k])

\* two date groups on the page, the later date second
C7_Witness ==
    /\ pc = "info"
    /\ Len(rendered) = 2
    /\ rendered[1].date_label = "31/01/2024"
    /\ rendered[2].date_label = "01/02/2024"
    /\ Len(rendered[1].rows) = 1
    /\ Len(rendered[2].rows) = 1

\* the credential is absent or empty
NoCredential == "TFNSW_API_KEY" \notin DOMAIN env \/ env["TFNSW_API_KEY"] = <<>>

(* C8: without a credential no HTTP request is ever issued, and the run     *)
(* ends showing the configuration error, which is none of the fetch errors, *)
(* with no departure row on the page; the next run can start.               *)
C8_MissingCredential ==
    NoCredential =>
        /\ fetches = 0
        /\ pc \in {"fetch", "done"}
        /\ rendered = <<>> /\ df = <<>> /\ debugTable = <<>>
        /\ pc = "done" =>
              /\ message = ErrorMessage(MissingKeyText)
              /\ message.text \notin FetchErrorTexts
              /\ ENABLED Refresh

\* a run that ended on the configuration error, the variable set but empty
C8_Witness ==
    /\ pc = "done"
    /\ "TFNSW_API_KEY" \in DOMAIN env
    /\ env["TFNSW_API_KEY"] = <<>>
    /\ message.text = MissingKeyText

(* C9: a run makes one fetch attempt; a run whose fetch fails shows one     *)
(* error message and no departure group; each run starts from an empty page *)
(* and its outcome is the one its own payload and clock give, also after a  *)
(* failed run.                                                              *)
C9_TicksAreIndependent ==
    /\ fetches <= 1
    /\ pc # "fetch" /\ ~NoCredential => fetches = 1
    /\ message.text \in FetchErrorTexts =>
          /\ pc = "done"
          /\ message.kind = "error"
          /\ rendered = <<>> /\ df = <<>> /\ debugTable = <<>> /\ stopInfo = <<>>
    /\ pc \in {"fetch", "parse", "render"} =>
          rendered = <<>> /\ message = NoMessage /\ debugTable = <<>>
    /\ pc = "fetch" => payload = EmptyDict /\ df = <<>> /\ now = NoneDt
    /\ RenderEnded =>
          LET T == DfHead(df, limit_rows)
          IN  /\ rendered = Written(GroupBy(T), RowsBeforeRaise(T))
              /\ BuildRows(payload) # <<>> =>
                    \E p \in SortOrders(Survivors(payload, now)) :
                        df = ResetIndex(Take(Survivors(payload, now), p))

\* the run after a failed fetch has rendered departures
C9_Witness ==
    /\ prevFetchFailed
    /\ pc = "done"
    /\ message = NoMessage
    /\ Len(RenderedRows) = 2
    /\ debugTable = df

(* C10: minutesUntil is the floor of the seconds to the best time over 60,  *)
(* and the countdown text on the page is "Now" exactly when it is <= 0 and  *)
(* "<minutesUntil>m" otherwise.                                             *)
C10_FloorMinutes ==
    ParseReturned =>
        /\ \A k \in DOMAIN df :
              LET secs == df[k].dt.t - now.t
              IN  /\ SecondsPerMinute * df[k].mins <= secs
                  /\ secs < SecondsPerMinute * df[k].mins + SecondsPerMinute
        /\ \A k \in DOMAIN RenderedRows :
              /\ RenderedRows[k].when_txt = "Now" <=> df[k].mins <= 0
              /\ df[k].mins > 0 =>
                    RenderedRows[k].when_txt = ToString(df[k].mins) \o "m"

\* a departure one second gone shows "Now" with -1, one 59 minutes off "59m"
C10_Witness ==
    /\ pc = "info"
    /\ Len(RenderedRows) = 2
    /\ df[1].dt.t - now.t = -1
    /\ df[1].mins = -1
    /\ RenderedRows[1].when_txt = "Now"
    /\ df[2].mins = 59
    /\ RenderedRows[2].when_txt = "59m"

====
